---- MODULE Spec2Model ----
(***************************************************************************)
(* Deck tracker (class DeckTracker): the 8-slot deck, the bounded undo     *)
(* history, the card picker, the evolution drop and the voice command      *)
(* path, as a state machine with one action per event handler.             *)
(*                                                                         *)
(* Positions are the DOM's data-position values 0..7; TLA+ sequences are   *)
(* 1-based, so slot p of the deck is deck[p + 1].                          *)
(***************************************************************************)
EXTENDS Integers, Sequences, FiniteSets, TLC

VARIABLES
    cards,           \* this.cards: the catalog, <<>> while it is {}
    deck,            \* this.deck
    history,         \* this.history
    selectedElixir,  \* this.selectedElixir
    cardList,        \* the card buttons currently in #cardList
    loadState,       \* the fetch of cards.json: "pending", "loaded" or "failed"
    recognition,     \* this.recognition: TRUE for the object, FALSE for null
    isListening,     \* this.isListening
    session,         \* the browser's recognition service: what it will deliver next
    picked,          \* the card the last handled event gave to selectCard, or null
    asked,           \* did the last handled event call findBestCardMatch?
    heard,           \* the spoken name it gave to findBestCardMatch
    matched,         \* what findBestCardMatch returned to it, or null
    called,          \* the recognition method the last handled event called
    steps,           \* number of events handled since Init (bounded)
    trail,           \* the last two handled events with their pre-states
    mutLog,          \* pre-mutation decks of the current run of mutating operations
    mutCount,        \* length of that run (capped)
    runBase,         \* the deck before the first operation of the latest run of
                     \* mutating operations that only undos have followed
    runLen,          \* the number of operations of that run (capped), 0 for none
    undone           \* the number of undos that followed it (capped)

vars == <<cards, deck, history, selectedElixir, cardList, loadState,
          recognition, isListening, session, picked, asked, heard, matched, called,
          steps, trail, mutLog, mutCount, runBase, runLen, undone>>

----------------------------------------------------------------------------
(* Program constants *)

\* Array(8).fill(null)
DeckSize == 8

\* if (this.history.length > 10)
MaxHistory == 10

(* Bounds of the exploration *)

\* events handled after the initial state
MaxSteps == 2

\* cards in a catalog document given to the matcher
MaxCatalog == 3

----------------------------------------------------------------------------
(* Values *)

\* JavaScript null in a deck slot
null == [isNull |-> TRUE]

\* JavaScript null in this.selectedElixir
nullElixir == "null"

Positions == 0 .. (DeckSize - 1)

\* The payloads a drop on a slot can carry: the evo star sets 'evo'
\* (dragstart handler); any other dragged thing carries something else.
DropData == {"evo", "other"}

Card(n, img, alts) == [name |-> n, image |-> img, alternatives |-> alts]

\* The catalog document cards.json: elixir cost -> cards, in the iteration
\* order of the object's keys.
CatalogSource ==
    << [elixir |-> "3", cards |-> << Card("Knight", "knight.png", <<"night">>),
                                     Card("Archers", "archers.png", <<>>),
                                     Card("Goblins", "goblins.png", <<>>),
                                     Card("Minions", "minions.png", <<>>) >>],
       [elixir |-> "4", cards |-> << Card("Musketeer", "musketeer.png", <<>>),
                                     Card("Valkyrie", "valkyrie.png", <<>>),
                                     Card("Hog Rider", "hog.png", <<"hog">>) >>],
       [elixir |-> "7", cards |-> << Card("Mega Knight", "mk.png", <<>>),
                                     Card("The Log", "log.png", <<>>) >>] >>

\* The cards of the catalog documents the matcher is run against.
CardPool ==
    { Card("Knight", "knight.png", <<"night">>),
      Card("Another Knight", "another.png", <<>>),
      Card("Mega Knight", "mk.png", <<>>),
      Card("The Log", "log.png", <<>>),
      Card("Log", "log2.png", <<"the log">>),
      Card("Hog Rider", "hog.png", <<"hog">>) }

\* the sequences of at most n different cards of the pool
RECURSIVE Arrangements(_, _)
Arrangements(pool, n) ==
    IF n = 0 THEN { <<>> }
    ELSE { <<>> } \cup
         UNION { { <<c>> \o rest : rest \in Arrangements(pool \ {c}, n - 1) } : c \in pool }

\* catalog documents of at most MaxCatalog cards under the keys "3" and "4"; {} is
\* the document without keys
Documents ==
    { <<>> } \cup
    UNION { { << [elixir |-> "3", cards |-> SubSeq(cs, 1, k)],
                 [elixir |-> "4", cards |-> SubSeq(cs, k + 1, Len(cs))] >> :
                k \in 0 .. Len(cs) } : cs \in Arrangements(CardPool, MaxCatalog) }

\* the data-elixir values of the .elixir-btn buttons
ElixirButtons == {"3", "4", "7"}

Range(f) == {f[i] : i \in DOMAIN f}

\* this.cards[elixir]: the group's cards, or <<>> when the key is absent
CardsOf(catalog, elixir) ==
    IF \E i \in DOMAIN catalog : catalog[i].elixir = elixir
    THEN catalog[CHOOSE i \in DOMAIN catalog : catalog[i].elixir = elixir].cards
    ELSE <<>>

AllCards(catalog) == UNION {Range(catalog[i].cards) : i \in DOMAIN catalog}

----------------------------------------------------------------------------
(* Text. A card's name, an alternative and a transcript are JavaScript      *)
(* strings; the string methods work on their characters, so Text gives the *)
(* characters of each string the model uses.                               *)

Text(str) ==
    CASE str = "Knight" -> <<"K", "n", "i", "g", "h", "t">>
      [] str = "Archers" -> <<"A", "r", "c", "h", "e", "r", "s">>
      [] str = "Goblins" -> <<"G", "o", "b", "l", "i", "n", "s">>
      [] str = "Minions" -> <<"M", "i", "n", "i", "o", "n", "s">>
      [] str = "Musketeer" -> <<"M", "u", "s", "k", "e", "t", "e", "e", "r">>
      [] str = "Valkyrie" -> <<"V", "a", "l", "k", "y", "r", "i", "e">>
      [] str = "Hog Rider" -> <<"H", "o", "g", " ", "R", "i", "d", "e", "r">>
      [] str = "Mega Knight" -> <<"M", "e", "g", "a", " ", "K", "n", "i", "g", "h", "t">>
      [] str = "The Log" -> <<"T", "h", "e", " ", "L", "o", "g">>
      [] str = "night" -> <<"n", "i", "g", "h", "t">>
      [] str = "hog" -> <<"h", "o", "g">>
      [] str = "Add Knight" -> <<"A", "d", "d", " ", "K", "n", "i", "g", "h", "t">>
      [] str = "add the log" -> <<"a", "d", "d", " ", "t", "h", "e", " ", "l", "o", "g">>
      [] str = "add hog" -> <<"a", "d", "d", " ", "h", "o", "g">>
      [] str = "add zzz" -> <<"a", "d", "d", " ", "z", "z", "z">>
      [] str = "play knight" -> <<"p", "l", "a", "y", " ", "k", "n", "i", "g", "h", "t">>
      [] str = "please add hog" ->
            <<"p", "l", "e", "a", "s", "e", " ", "a", "d", "d", " ", "h", "o", "g">>
      [] str = "Another Knight" ->
            <<"A", "n", "o", "t", "h", "e", "r", " ", "K", "n", "i", "g", "h", "t">>
      [] str = "Log" ->
            <<"L", "o", "g">>
      [] str = "the log" ->
            <<"t", "h", "e", " ", "l", "o", "g">>
      [] str = "the knight" ->
            <<"t", "h", "e", " ", "k", "n", "i", "g", "h", "t">>
      [] str = "zzz-not-a-card" ->
            <<"z", "z", "z", "-", "n", "o", "t", "-", "a", "-", "c", "a", "r", "d">>
      [] str = "mega knight" ->
            <<"m", "e", "g", "a", " ", "k", "n", "i", "g", "h", "t">>
      [] str = " KNIGHT " ->
            <<" ", "K", "N", "I", "G", "H", "T", " ">>
      [] str = "log" ->
            <<"l", "o", "g">>
      [] str = "another knight" ->
            <<"a", "n", "o", "t", "h", "e", "r", " ", "k", "n", "i", "g", "h", "t">>
      [] str = "knight" ->
            <<"k", "n", "i", "g", "h", "t">>
      [] str = "add " -> <<"a", "d", "d", " ">>
      [] str = "the" -> <<"t", "h", "e">>
      [] str = "a" -> <<"a">>
      [] str = "an" -> <<"a", "n">>
      [] str = "" -> <<>>

\* the spoken names findBestCardMatch is run on
SpokenNames ==
    {"the knight", "zzz-not-a-card", "mega knight", " KNIGHT ", "night", "the log",
     "log", "hog", ""}

\* the transcripts the recognition service delivers (event.results[0][0].transcript)
Transcripts ==
    {"Add Knight", "add the log", "add hog", "add zzz", "play knight", "please add hog"}

LowerChar(c) ==
    CASE c = "A" -> "a"
      [] c = "B" -> "b"
      [] c = "C" -> "c"
      [] c = "D" -> "d"
      [] c = "E" -> "e"
      [] c = "F" -> "f"
      [] c = "G" -> "g"
      [] c = "H" -> "h"
      [] c = "I" -> "i"
      [] c = "J" -> "j"
      [] c = "K" -> "k"
      [] c = "L" -> "l"
      [] c = "M" -> "m"
      [] c = "N" -> "n"
      [] c = "O" -> "o"
      [] c = "P" -> "p"
      [] c = "Q" -> "q"
      [] c = "R" -> "r"
      [] c = "S" -> "s"
      [] c = "T" -> "t"
      [] c = "U" -> "u"
      [] c = "V" -> "v"
      [] c = "W" -> "w"
      [] c = "X" -> "x"
      [] c = "Y" -> "y"
      [] c = "Z" -> "z"
      [] OTHER -> c

\* \w of a regular expression
WordChars ==
    {"a", "b", "c", "d", "e", "f", "g", "h", "i", "j", "k", "l", "m", "n", "o", "p", "q", "r", "s", "t", "u", "v", "w", "x", "y", "z",
     "A", "B", "C", "D", "E", "F", "G", "H", "I", "J", "K", "L", "M", "N", "O", "P", "Q", "R", "S", "T", "U", "V", "W", "X", "Y", "Z",
     "0", "1", "2", "3", "4", "5", "6", "7", "8", "9", "_"}

\* String.prototype.toLowerCase
ToLowerCase(t) == [i \in DOMAIN t |-> LowerChar(t[i])]

\* String.prototype.trim
RECURSIVE TrimStart(_)
TrimStart(t) == IF t # <<>> /\ Head(t) = " " THEN TrimStart(Tail(t)) ELSE t

RECURSIVE TrimEnd(_)
TrimEnd(t) ==
    IF t # <<>> /\ t[Len(t)] = " " THEN TrimEnd(SubSeq(t, 1, Len(t) - 1)) ELSE t

Trim(t) == TrimEnd(TrimStart(t))

\* String.prototype.startsWith
StartsWith(t, prefix) ==
    Len(t) >= Len(prefix) /\ SubSeq(t, 1, Len(prefix)) = prefix

\* String.prototype.substring(from)
Substring(t, from) == SubSeq(t, from + 1, Len(t))

\* String.prototype.includes
Includes(t, part) ==
    \E i \in 0 .. (Len(t) - Len(part)) : SubSeq(t, i + 1, i + Len(part)) = part

\* \b at the gap before character i (1 .. Len(t) + 1)
WordBoundary(t, i) ==
    LET before == i > 1 /\ t[i - 1] \in WordChars
        after == i <= Len(t) /\ t[i] \in WordChars
    IN  before # after

\* (the|a|an) without the \b on either side
StopWordAtAnywhere(t, i) ==
    LET fits(w) == /\ i + Len(w) - 1 <= Len(t)
                   /\ SubSeq(t, i, i + Len(w) - 1) = w
    IN  IF fits(Text("the")) THEN Text("the")
        ELSE IF fits(Text("a")) THEN Text("a")
        ELSE IF fits(Text("an")) THEN Text("an")
        ELSE <<>>

\* does \b(the|a|an)\b match at character i, and with which alternative?
\* The alternatives are tried in the order written.
StopWordAt(t, i) ==
    LET fits(w) == /\ i + Len(w) - 1 <= Len(t)
                   /\ SubSeq(t, i, i + Len(w) - 1) = w
                   /\ WordBoundary(t, i + Len(w))
    IN  IF ~WordBoundary(t, i) THEN <<>>
        ELSE IF fits(Text("the")) THEN Text("the")
        ELSE IF fits(Text("a")) THEN Text("a")
        ELSE IF fits(Text("an")) THEN Text("an")
        ELSE <<>>

\* t.replace(/\b(the|a|an)\b/g, ''), scanning from character i
RECURSIVE StripFrom(_, _)
StripFrom(t, i) ==
    IF i > Len(t) THEN <<>>
    ELSE LET w == StopWordAt(t, i)
         IN  IF w # <<>> THEN StripFrom(t, i + Len(w))
             ELSE <<t[i]>> \o StripFrom(t, i + 1)

StripStopWords(t) == StripFrom(t, 1)

----------------------------------------------------------------------------
(* Array operations *)

Last(a) == a[Len(a)]
Front(a) == SubSeq(a, 1, Len(a) - 1)

\* a.splice(position, 1)
Splice1(a, position) == SubSeq(a, 1, position) \o SubSeq(a, position + 2, Len(a))

\* a.slice(-n)
SliceLast(a, n) == IF Len(a) > n THEN SubSeq(a, Len(a) - n + 1, Len(a)) ELSE a

\* deck.findIndex(deckCard => deckCard && deckCard.name === name)
FindIndex(d, name) ==
    LET hits == {i \in DOMAIN d : d[i] # null /\ d[i].name = name}
    IN  IF hits = {} THEN -1
        ELSE (CHOOSE i \in hits : \A j \in hits : i <= j) - 1

----------------------------------------------------------------------------
(* JSON.parse(JSON.stringify(deck)): the deep copy of saveState *)

BoolText(b) == IF b THEN "true" ELSE "false"

JSONStringifySlot(slot) ==
    IF slot = null THEN [kind |-> "null"]
    ELSE [kind |-> "object", name |-> slot.name, image |-> slot.image,
          alternatives |-> slot.alternatives, isEvo |-> BoolText(slot.isEvo)]

JSONStringify(d) == [i \in DOMAIN d |-> JSONStringifySlot(d[i])]

JSONParseSlot(text) ==
    IF text.kind = "null" THEN null
    ELSE [name |-> text.name, image |-> text.image,
          alternatives |-> text.alternatives, isEvo |-> (text.isEvo = "true")]

JSONParse(text) == [i \in DOMAIN text |-> JSONParseSlot(text[i])]

----------------------------------------------------------------------------
(* The handlers, as functions of the tracker's fields *)

\* saveState() with history.pop() in place of history.shift()
saveStatePop(s) ==
    LET pushed == Append(s.history, JSONParse(JSONStringify(s.deck)))
    IN  [s EXCEPT !.history = IF Len(pushed) > MaxHistory THEN Front(pushed) ELSE pushed]

\* saveState()
saveState(s) ==
    LET pushed == Append(s.history, JSONParse(JSONStringify(s.deck)))
    IN  [s EXCEPT !.history = IF Len(pushed) > MaxHistory THEN Tail(pushed) ELSE pushed]

\* cycleCard(position) with deck.unshift(card) in place of deck.push(card)
cycleCardUnshift(s, position) ==
    IF s.deck[position + 1] = null THEN s
    ELSE LET s1 == saveState(s)
             card == s1.deck[position + 1]
         IN  [s1 EXCEPT !.deck = <<card>> \o Splice1(s1.deck, position)]

\* cycleCard(position) with delete this.deck[position] in place of the splice:
\* the slot stays, empty
cycleCardLeaveHole(s, position) ==
    IF s.deck[position + 1] = null THEN s
    ELSE LET s1 == saveState(s)
             card == s1.deck[position + 1]
             removed == [s1.deck EXCEPT ![position + 1] = null]
             pushed == Append(removed, card)
         IN  [s1 EXCEPT !.deck = IF Len(pushed) > DeckSize
                                 THEN SliceLast(pushed, DeckSize) ELSE pushed]

\* cycleCard(position)
cycleCard(s, position) ==
    IF s.deck[position + 1] = null THEN s
    ELSE LET s1 == saveState(s)
             card == s1.deck[position + 1]
             removed == Splice1(s1.deck, position)
             pushed == Append(removed, card)
         IN  [s1 EXCEPT !.deck = IF Len(pushed) > DeckSize
                                 THEN SliceLast(pushed, DeckSize) ELSE pushed]

\* hideCardSelection()
hideCardSelection(s) == [s EXCEPT !.selectedElixir = nullElixir]

\* { ...card, isEvo: false }
SlotCard(card) ==
    [name |-> card.name, image |-> card.image,
     alternatives |-> card.alternatives, isEvo |-> FALSE]

\* selectCard(card) without the deck.shift()
selectCardNoShift(s, card) ==
    LET s1 == saveState(s)
        existingIndex == FindIndex(s1.deck, card.name)
        s2 == IF existingIndex # -1
              THEN cycleCard(s1, existingIndex)
              ELSE [s1 EXCEPT !.deck = Append(@, SlotCard(card))]
    IN  [hideCardSelection(s2) EXCEPT !.picked = card]

\* selectCard(card) with deck.pop() in place of deck.shift()
selectCardPop(s, card) ==
    LET s1 == saveState(s)
        existingIndex == FindIndex(s1.deck, card.name)
        s2 == IF existingIndex # -1
              THEN cycleCard(s1, existingIndex)
              ELSE [s1 EXCEPT !.deck = Append(Front(@), SlotCard(card))]
    IN  [hideCardSelection(s2) EXCEPT !.picked = card]

\* selectCard(card) without the look for the card in the deck
selectCardAlwaysInsert(s, card) ==
    LET s1 == saveState(s)
        s2 == [s1 EXCEPT !.deck = Append(Tail(@), SlotCard(card))]
    IN  [hideCardSelection(s2) EXCEPT !.picked = card]

\* selectCard(card); picked notes the card it was given
selectCard(s, card) ==
    LET s1 == saveState(s)
        existingIndex == FindIndex(s1.deck, card.name)
        s2 == IF existingIndex # -1
              THEN cycleCard(s1, existingIndex)
              ELSE [s1 EXCEPT !.deck = Append(Tail(@), SlotCard(card))]
    IN  [hideCardSelection(s2) EXCEPT !.picked = card]

\* showCardSelection(elixir): one button per card of this.cards[elixir]
showCardSelection(s, elixir) ==
    [s EXCEPT !.cardList = Range(CardsOf(s.cards, elixir))]

\* selectElixir(elixir)
selectElixir(s, elixir) ==
    LET s1 == saveState(s)
    IN  showCardSelection([s1 EXCEPT !.selectedElixir = elixir], elixir)

\* undo() with history.shift() in place of history.pop()
undoOldest(s) ==
    IF Len(s.history) > 0
    THEN [s EXCEPT !.deck = Head(s.history), !.history = Tail(s.history)]
    ELSE s

\* undo() that reads the last snapshot without removing it
undoPeek(s) ==
    IF Len(s.history) > 0 THEN [s EXCEPT !.deck = Last(s.history)] ELSE s

\* undo()
undo(s) ==
    IF Len(s.history) > 0
    THEN [s EXCEPT !.deck = Last(s.history), !.history = Front(s.history)]
    ELSE s

\* the 'drop' listener with card.isEvo = true in place of the toggle
dropOnSlotSet(s, position, data) ==
    LET card == s.deck[position + 1]
    IN  IF card # null /\ data = "evo"
        THEN LET s1 == saveState(s)
             IN  [s1 EXCEPT !.deck[position + 1].isEvo = TRUE]
        ELSE s

\* the 'drop' listener without the test of card: on an empty slot the state is
\* saved before card.isEvo throws
dropOnSlotNoCheck(s, position, data) ==
    LET card == s.deck[position + 1]
    IN  IF data = "evo"
        THEN LET s1 == saveState(s)
             IN  IF card = null THEN s1
                 ELSE [s1 EXCEPT !.deck[position + 1].isEvo = ~@]
        ELSE s

\* the 'drop' listener with a saveState() that pushes this.deck itself and not a
\* copy: the toggle shows in the snapshot
dropOnSlotShared(s, position, data) ==
    LET card == s.deck[position + 1]
    IN  IF card # null /\ data = "evo"
        THEN LET s1 == saveState(s)
                 s2 == [s1 EXCEPT !.deck[position + 1].isEvo = ~@]
             IN  [s2 EXCEPT !.history[Len(s2.history)] = s2.deck]
        ELSE s

\* the 'drop' listener of a card slot
dropOnSlot(s, position, data) ==
    LET card == s.deck[position + 1]
    IN  IF card # null /\ data = "evo"
        THEN LET s1 == saveState(s)
             IN  [s1 EXCEPT !.deck[position + 1].isEvo = ~@]
        ELSE s

\* the 'click' listener of a card slot
clickSlot(s, position) ==
    IF s.deck[position + 1] # null THEN cycleCard(s, position) ELSE s

\* loadCards() with this.cards assigned before the failure is known
loadCardsAssignFirst(s, ok) ==
    [s EXCEPT !.cards = CatalogSource,
              !.loadState = IF ok THEN "loaded" ELSE "failed"]

\* loadCards(), once the fetch settles: ok is whether fetch and json() succeeded
loadCards(s, ok) ==
    [s EXCEPT !.cards = IF ok THEN CatalogSource ELSE @,
              !.loadState = IF ok THEN "loaded" ELSE "failed"]

\* loadCards() after a fetch that succeeded, cards.json being the given document
loadCardsFrom(s, document) == [s EXCEPT !.cards = document, !.loadState = "loaded"]

----------------------------------------------------------------------------
(* The fuzzy matcher *)

\* the catalog's cards in the order of
\* for (const elixirCost in this.cards) for (const card of this.cards[elixirCost])
RECURSIVE Flat(_)
Flat(catalog) ==
    IF catalog = <<>> THEN <<>> ELSE Head(catalog).cards \o Flat(Tail(catalog))

\* a scan that falls back on the first card of the catalog
FirstHitOrFirst(all, hits) ==
    IF hits = {} THEN (IF all = <<>> THEN null ELSE all[1])
    ELSE all[CHOOSE i \in hits : \A j \in hits : i <= j]

\* the first card of the scan among those that pass the test (hits: their places
\* in the scan), or null: the scan's `return card`
FirstHit(all, hits) ==
    IF hits = {} THEN null
    ELSE all[CHOOSE i \in hits : \A j \in hits : i <= j]

\* findBestCardMatch(spokenName) with the partial match of names tried first
findBestCardMatchPartialFirst(catalog, spokenName) ==
    LET spoken == Trim(ToLowerCase(spokenName))
        all == Flat(catalog)
        lowerName(c) == ToLowerCase(Text(c.name))
        lowerAlt(c, k) == ToLowerCase(Text(c.alternatives[k]))
        exactName(c) == lowerName(c) = spoken
        exactAlt(c) == \E k \in DOMAIN c.alternatives : lowerAlt(c, k) = spoken
        partialName(c) ==
            Includes(lowerName(c), spoken) \/ Includes(spoken, lowerName(c))
        partialAlt(c) ==
            \E k \in DOMAIN c.alternatives :
                Includes(lowerAlt(c, k), spoken) \/ Includes(spoken, lowerAlt(c, k))
        cleanSpoken == Trim(StripStopWords(spoken))
        fuzzy(c) ==
            LET cleanCardName == Trim(StripStopWords(lowerName(c)))
            IN  Includes(cleanCardName, cleanSpoken) \/ Includes(cleanSpoken, cleanCardName)
        first == FirstHit(all, {i \in DOMAIN all : exactName(all[i])})
        second == FirstHit(all, {i \in DOMAIN all : exactAlt(all[i])})
        third == FirstHit(all, {i \in DOMAIN all : partialName(all[i])})
        fourth == FirstHit(all, {i \in DOMAIN all : partialAlt(all[i])})
        fifth == FirstHit(all, {i \in DOMAIN all : fuzzy(all[i])})
    IN  IF third # null THEN third
        ELSE IF first # null THEN first
        ELSE IF second # null THEN second
        ELSE IF fourth # null THEN fourth
        ELSE fifth

\* findBestCardMatch(spokenName)
findBestCardMatch(catalog, spokenName) ==
    LET spoken == Trim(ToLowerCase(spokenName))
        all == Flat(catalog)
        lowerName(c) == ToLowerCase(Text(c.name))
        lowerAlt(c, k) == ToLowerCase(Text(c.alternatives[k]))
        exactName(c) == lowerName(c) = spoken
        exactAlt(c) == \E k \in DOMAIN c.alternatives : lowerAlt(c, k) = spoken
        partialName(c) ==
            Includes(lowerName(c), spoken) \/ Includes(spoken, lowerName(c))
        partialAlt(c) ==
            \E k \in DOMAIN c.alternatives :
                Includes(lowerAlt(c, k), spoken) \/ Includes(spoken, lowerAlt(c, k))
        cleanSpoken == Trim(StripStopWords(spoken))
        fuzzy(c) ==
            LET cleanCardName == Trim(StripStopWords(lowerName(c)))
            IN  Includes(cleanCardName, cleanSpoken) \/ Includes(cleanSpoken, cleanCardName)
        first == FirstHit(all, {i \in DOMAIN all : exactName(all[i])})
        second == FirstHit(all, {i \in DOMAIN all : exactAlt(all[i])})
        third == FirstHit(all, {i \in DOMAIN all : partialName(all[i])})
        fourth == FirstHit(all, {i \in DOMAIN all : partialAlt(all[i])})
        fifth == FirstHit(all, {i \in DOMAIN all : fuzzy(all[i])})
    IN  IF first # null THEN first
        ELSE IF second # null THEN second
        ELSE IF third # null THEN third
        ELSE IF fourth # null THEN fourth
        ELSE fifth

----------------------------------------------------------------------------
(* Voice commands *)

\* addCardByVoice(spokenCardName) with a saveState() before the 'not found' message
addCardByVoiceSave(s, spokenCardName) ==
    CHOOSE after \in
        { LET s1 == [s EXCEPT !.asked = TRUE, !.heard = spokenCardName,
                              !.matched = matchedCard]
          IN  IF matchedCard # null THEN selectCard(s1, matchedCard) ELSE saveState(s1)
          : matchedCard \in {findBestCardMatch(s.cards, spokenCardName)} } : TRUE

\* addCardByVoice(spokenCardName); asked, heard and matched note the call of
\* findBestCardMatch
addCardByVoice(s, spokenCardName) ==
    CHOOSE after \in
        { LET s1 == [s EXCEPT !.asked = TRUE, !.heard = spokenCardName,
                              !.matched = matchedCard]
          IN  IF matchedCard # null THEN selectCard(s1, matchedCard) ELSE s1
          : matchedCard \in {findBestCardMatch(s.cards, spokenCardName)} } : TRUE

\* processVoiceCommand(transcript) with includes('add ') in place of startsWith('add ')
processVoiceCommandIncludes(s, transcript) ==
    IF Includes(transcript, Text("add "))
    THEN addCardByVoice(s, Trim(Substring(transcript, 4)))
    ELSE s

\* processVoiceCommand(transcript)
processVoiceCommand(s, transcript) ==
    IF StartsWith(transcript, Text("add "))
    THEN addCardByVoice(s, Trim(Substring(transcript, 4)))
    ELSE s

\* What the recognition object is after an 'error' event and before the 'end'
\* event that follows: still started, so that start() throws ("held"), or no
\* longer started, so that start() is accepted ("released"). Browsers differ.
ErrorKinds == {"held", "released"}

\* recognition.start(): starts a session; on a recognition object that is started
\* already, start() throws InvalidStateError and the click handler ends
recognitionStart(s) ==
    [s EXCEPT !.called = "start",
              !.session = IF s.session \in {"idle", "released"} THEN "starting" ELSE @]

\* recognition.stop(): the running session stops listening; it may still deliver
\* a final result before it ends
recognitionStop(s) ==
    [s EXCEPT !.called = "stop",
              !.session = IF s.session = "running" THEN "stopping" ELSE @]

\* toggleVoiceRecognition()
toggleVoiceRecognition(s) ==
    IF ~s.recognition THEN s
    ELSE IF s.isListening THEN recognitionStop(s) ELSE recognitionStart(s)

\* recognition.onstart
onstart(s) == [s EXCEPT !.isListening = TRUE, !.session = "running"]

\* recognition.onend
onend(s) == [s EXCEPT !.isListening = FALSE, !.session = "idle"]

\* recognition.onresult; continuous is false, so the session ends after the result
onresult(s, transcript) ==
    [processVoiceCommand(s, ToLowerCase(transcript)) EXCEPT !.session = "ended"]

\* recognition.onerror; the end event follows
onerror(s, kind) ==
    [s EXCEPT !.isListening = FALSE,
              !.session = IF kind = "held" THEN "failed" ELSE "released"]

----------------------------------------------------------------------------
(* Events *)

Ev(op, pos, name, data) == [op |-> op, pos |-> pos, name |-> name, data |-> data]

\* the handler an event runs
Handle(s, e) ==
    CASE e.op = "loadCards"    -> loadCards(s, e.data = "ok")
      [] e.op = "selectElixir" -> selectElixir(s, e.name)
      [] e.op = "selectCard"   ->
            selectCard(s, CHOOSE c \in s.cardList : c.name = e.name)
      [] e.op = "clickSlot"    -> clickSlot(s, e.pos)
      [] e.op = "drop"         -> dropOnSlot(s, e.pos, e.data)
      [] e.op = "undo"         -> undo(s)
      [] e.op = "voiceClick"   -> toggleVoiceRecognition(s)
      [] e.op = "onstart"      -> onstart(s)
      [] e.op = "onresult"     -> onresult(s, Text(e.data))
      [] e.op = "onerror"      -> onerror(s, e.data)
      [] e.op = "onend"        -> onend(s)

\* when the page can deliver the event
CanFire(s, e) ==
    CASE e.op = "loadCards"    -> s.loadState = "pending"
      [] e.op = "selectElixir" -> e.name \in ElixirButtons
      [] e.op = "selectCard"   ->
            s.selectedElixir # nullElixir /\ \E c \in s.cardList : c.name = e.name
      [] e.op = "clickSlot"    -> e.pos \in Positions
      [] e.op = "drop"         -> e.pos \in Positions
      [] e.op = "undo"         -> TRUE
      \* the voice button is hidden when the browser has no speech recognition
      [] e.op = "voiceClick"   -> s.recognition
      [] e.op = "onstart"      -> s.session = "starting"
      \* a result comes from a running session, also one that was told to stop;
      \* the service may deliver a trailing result after it reported an error
      [] e.op = "onresult"     ->
            /\ s.session \in {"running", "stopping", "failed", "released"}
            /\ e.data \in Transcripts
      [] e.op = "onerror"      -> /\ s.session \in {"starting", "running", "stopping"}
                                  /\ e.data \in ErrorKinds
      [] e.op = "onend"        ->
            s.session \in {"running", "stopping", "ended", "failed", "released"}

----------------------------------------------------------------------------
(* Bookkeeping for the properties: what the last events were and what the  *)
(* deck and history were before them.                                      *)

\* does handling e in s run a mutating deck operation (insertOrBump, cycle of an
\* occupied slot, toggleEvolution of an occupied slot)? after: the state it leaves
IsMutation(s, e, after) ==
    \/ after.picked # null
    \/ e.op = "clickSlot" /\ s.deck[e.pos + 1] # null
    \/ e.op = "drop" /\ s.deck[e.pos + 1] # null /\ e.data = "evo"

\* what is kept of an event: the event, the card it gave to selectCard, and the
\* deck, the history, the catalog and the listening state it found
Note(s, e, after, mut) ==
    [op |-> e.op, pos |-> e.pos, name |-> e.name, data |-> e.data,
     card |-> after.picked, mut |-> mut,
     deck |-> s.deck, history |-> s.history, cards |-> s.cards,
     isListening |-> s.isListening, session |-> s.session]

\* the bookkeeping of one handled event: s before, after after the handler
Record(s, e, after, mut) ==
    [after EXCEPT
       !.steps = s.steps + 1,
       !.trail = SubSeq(<<Note(s, e, after, mut)>> \o s.trail, 1,
                        IF Len(s.trail) >= 1 THEN 2 ELSE 1),
       !.mutLog = IF mut
                  THEN SliceLast(Append(s.mutLog, s.deck), MaxHistory)
                  ELSE IF e.op \in {"undo", "selectElixir"} THEN <<>> ELSE @,
       !.mutCount = IF mut
                    THEN (IF s.mutCount > MaxHistory THEN s.mutCount ELSE s.mutCount + 1)
                    ELSE IF e.op \in {"undo", "selectElixir"} THEN 0 ELSE @,
       \* a mutating operation continues the run unless an undo came in between;
       \* an undo counts against the run; any other event ends it
       !.runBase = IF mut
                   THEN (IF s.runLen = 0 \/ s.undone > 0 THEN s.deck ELSE @)
                   ELSE IF e.op = "undo" THEN @ ELSE <<>>,
       !.runLen = IF mut
                  THEN (IF s.runLen = 0 \/ s.undone > 0 THEN 1
                        ELSE IF s.runLen > MaxHistory THEN s.runLen ELSE s.runLen + 1)
                  ELSE IF e.op = "undo" THEN @ ELSE 0,
       !.undone = IF mut THEN 0
                  ELSE IF e.op = "undo" /\ s.runLen > 0
                  THEN (IF s.undone > MaxHistory THEN s.undone ELSE s.undone + 1)
                  ELSE 0]

\* the state after the handler, with the bookkeeping done
Logged(s, e, after) ==
    CHOOSE logged \in {Record(s, e, after, mut) : mut \in {IsMutation(s, e, after)}} : TRUE

\* the state in which an event finds the page
Fresh(s) ==
    [s EXCEPT !.picked = null, !.asked = FALSE, !.heard = <<>>, !.matched = null,
              !.called = "none"]

\* one event: its handler, then the bookkeeping
Step(s, e) ==
    CHOOSE logged \in {Logged(s, e, after) : after \in {Handle(Fresh(s), e)}} : TRUE

----------------------------------------------------------------------------
(* The state machine *)

\* the constructor
Constructed(supported) ==
    [cards |-> <<>>,
     deck |-> [i \in 1 .. DeckSize |-> null],
     history |-> <<>>,
     selectedElixir |-> nullElixir,
     cardList |-> {},
     loadState |-> "pending",
     recognition |-> supported, isListening |-> FALSE, session |-> "idle",
     picked |-> null, asked |-> FALSE, heard |-> <<>>, matched |-> null,
     called |-> "none", steps |-> 0, trail |-> <<>>, mutLog |-> <<>>, mutCount |-> 0,
     runBase |-> <<>>, runLen |-> 0, undone |-> 0]

Cur ==
    [cards |-> cards, deck |-> deck, history |-> history,
     selectedElixir |-> selectedElixir, cardList |-> cardList,
     loadState |-> loadState,
     recognition |-> recognition, isListening |-> isListening, session |-> session,
     picked |-> picked, asked |-> asked, heard |-> heard, matched |-> matched,
     called |-> called,
     steps |-> steps, trail |-> trail, mutLog |-> mutLog, mutCount |-> mutCount,
     runBase |-> runBase, runLen |-> runLen, undone |-> undone]

Become(s) ==
    /\ cards' = s.cards
    /\ deck' = s.deck
    /\ history' = s.history
    /\ selectedElixir' = s.selectedElixir
    /\ cardList' = s.cardList
    /\ loadState' = s.loadState
    /\ recognition' = s.recognition
    /\ isListening' = s.isListening
    /\ session' = s.session
    /\ picked' = s.picked
    /\ asked' = s.asked
    /\ heard' = s.heard
    /\ matched' = s.matched
    /\ called' = s.called
    /\ steps' = s.steps
    /\ trail' = s.trail
    /\ mutLog' = s.mutLog
    /\ mutCount' = s.mutCount
    /\ runBase' = s.runBase
    /\ runLen' = s.runLen
    /\ undone' = s.undone

Is(s) ==
    /\ cards = s.cards
    /\ deck = s.deck
    /\ history = s.history
    /\ selectedElixir = s.selectedElixir
    /\ cardList = s.cardList
    /\ loadState = s.loadState
    /\ recognition = s.recognition
    /\ isListening = s.isListening
    /\ session = s.session
    /\ picked = s.picked
    /\ asked = s.asked
    /\ heard = s.heard
    /\ matched = s.matched
    /\ called = s.called
    /\ steps = s.steps
    /\ trail = s.trail
    /\ mutLog = s.mutLog
    /\ mutCount = s.mutCount
    /\ runBase = s.runBase
    /\ runLen = s.runLen
    /\ undone = s.undone

\* the events, by the gesture or the completion that raises them
EvLoad(ok) == Ev("loadCards", -1, "", IF ok THEN "ok" ELSE "failed")
EvElixir(elixir) == Ev("selectElixir", -1, elixir, "")
EvCard(name) == Ev("selectCard", -1, name, "")
EvClick(position) == Ev("clickSlot", position, "", "")
EvDrop(position, data) == Ev("drop", position, "", data)
EvUndo == Ev("undo", -1, "", "")
EvVoiceClick == Ev("voiceClick", -1, "", "")
EvOnStart == Ev("onstart", -1, "", "")
EvOnResult(transcript) == Ev("onresult", -1, "", transcript)
EvOnError(kind) == Ev("onerror", -1, "", kind)
EvOnEnd == Ev("onend", -1, "", "")

\* the exploration handles at most MaxSteps events
Budget == steps < MaxSteps

\* the fetch of cards.json settles: loadCards() resumes
LoadCards(ok) ==
    /\ Budget
    /\ \E s \in {Fresh(Cur)}, e \in {EvLoad(ok)} :
          /\ CanFire(s, e)
          /\ \E after \in {loadCards(s, ok)} : Become(Logged(s, e, after))

\* click on an elixir button
SelectElixir(elixir) ==
    /\ Budget
    /\ \E s \in {Fresh(Cur)}, e \in {EvElixir(elixir)} :
          /\ CanFire(s, e)
          /\ \E after \in {selectElixir(s, elixir)} : Become(Logged(s, e, after))

\* click on a card button of the picker
SelectCard(card) ==
    /\ Budget
    /\ \E s \in {Fresh(Cur)}, e \in {EvCard(card.name)} :
          /\ CanFire(s, e)
          /\ \E after \in {selectCard(s, card)} : Become(Logged(s, e, after))

\* click on a deck slot
ClickSlot(position) ==
    /\ Budget
    /\ \E s \in {Fresh(Cur)}, e \in {EvClick(position)} :
          /\ CanFire(s, e)
          /\ \E after \in {clickSlot(s, position)} : Become(Logged(s, e, after))

\* drop on a deck slot
DropOnSlot(position, data) ==
    /\ Budget
    /\ \E s \in {Fresh(Cur)}, e \in {EvDrop(position, data)} :
          /\ CanFire(s, e)
          /\ \E after \in {dropOnSlot(s, position, data)} : Become(Logged(s, e, after))

\* click on the undo button
Undo ==
    /\ Budget
    /\ \E s \in {Fresh(Cur)}, e \in {EvUndo} :
          /\ CanFire(s, e)
          /\ \E after \in {undo(s)} : Become(Logged(s, e, after))

\* click on the voice button
VoiceClick ==
    /\ Budget
    /\ \E s \in {Fresh(Cur)}, e \in {EvVoiceClick} :
          /\ CanFire(s, e)
          /\ \E after \in {toggleVoiceRecognition(s)} : Become(Logged(s, e, after))

\* the recognition service fires 'start'
OnStart ==
    /\ Budget
    /\ \E s \in {Fresh(Cur)}, e \in {EvOnStart} :
          /\ CanFire(s, e)
          /\ \E after \in {onstart(s)} : Become(Logged(s, e, after))

\* the recognition service fires 'result'
OnResult(transcript) ==
    /\ Budget
    /\ \E s \in {Fresh(Cur)}, e \in {EvOnResult(transcript)} :
          /\ CanFire(s, e)
          /\ \E after \in {onresult(s, Text(transcript))} : Become(Logged(s, e, after))

\* the recognition service fires 'error'
OnError(kind) ==
    /\ Budget
    /\ \E s \in {Fresh(Cur)}, e \in {EvOnError(kind)} :
          /\ CanFire(s, e)
          /\ \E after \in {onerror(s, kind)} : Become(Logged(s, e, after))

\* the recognition service fires 'end'
OnEnd ==
    /\ Budget
    /\ \E s \in {Fresh(Cur)}, e \in {EvOnEnd} :
          /\ CanFire(s, e)
          /\ \E after \in {onend(s)} : Become(Logged(s, e, after))

----------------------------------------------------------------------------
(* Initial states. The exploration starts from the constructor's state and  *)
(* from the states the page is in after one of a few sessions of use: each *)
(* session is a sequence of events run from the constructor's state        *)
(* through the handlers above.                                             *)

\* the events of the session, handled in order
RECURSIVE Run(_, _)
Run(s, events) ==
    IF events = <<>> THEN s
    ELSE CHOOSE end \in {Run(after, rest) : after \in {Step(s, events[1])},
                                             rest \in {Tail(events)}} : TRUE

\* can the page deliver every event of the session, in order?
RECURSIVE Runnable(_, _)
Runnable(s, events) ==
    IF events = <<>> THEN TRUE
    ELSE \A e \in {events[1]}, rest \in {Tail(events)} :
            CanFire(s, e) /\ \A after \in {Step(s, e)} : Runnable(after, rest)

\* pick a card in the picker: its elixir button, then its card button
Pick(elixir, name) == << EvElixir(elixir), EvCard(name) >>

Times(n, e) == [i \in 1 .. n |-> e]

\* three cards picked, the last one evolved
PartialDeck ==
    << EvLoad(TRUE) >> \o Pick("3", "Knight") \o Pick("3", "Archers")
        \o Pick("4", "Musketeer") \o << EvDrop(7, "evo") >>

\* eight cards picked: every slot is occupied
FullDeck ==
    PartialDeck \o Pick("3", "Goblins") \o Pick("3", "Minions")
        \o Pick("4", "Valkyrie") \o Pick("4", "Hog Rider") \o Pick("7", "Mega Knight")

\* a full deck, listening, after a run of eleven cycles and evolution drops
BusyDeck ==
    FullDeck \o << EvVoiceClick, EvOnStart >> \o Times(DeckSize, EvClick(0))
        \o << EvDrop(5, "evo"), EvDrop(6, "evo"), EvDrop(7, "evo") >>

\* a full deck with the picker open on the cards that cost 7
Browsing == FullDeck \o << EvElixir("7") >>

\* a full deck undone until one snapshot is left
DrainedDeck == FullDeck \o << EvClick(0) >> \o Times(MaxHistory - 1, EvUndo)

\* a full deck, listening: an evo drop, then "Add Knight" is said while Knight is
\* in the deck
SpokenBump ==
    FullDeck \o << EvVoiceClick, EvOnStart, EvDrop(3, "evo"), EvOnResult("Add Knight") >>

\* a partial deck: a cycle, an evo drop, a cycle
ShortRun == PartialDeck \o << EvClick(5), EvDrop(6, "evo"), EvClick(6) >>

\* listening before the fetch of cards.json has settled
EarlyVoice == << EvVoiceClick, EvOnStart >>

Sessions ==
    { <<>>, PartialDeck, FullDeck, Browsing, BusyDeck, DrainedDeck, EarlyVoice,
      SpokenBump, ShortRun }

Init ==
    \E supported \in BOOLEAN, events \in Sessions :
        \E start \in {Constructed(supported)} :
            /\ Runnable(start, events)
            /\ \E s \in {Run(start, events)} : Is([s EXCEPT !.steps = 0])

Next ==
    \/ \E ok \in BOOLEAN : LoadCards(ok)
    \/ \E elixir \in ElixirButtons : SelectElixir(elixir)
    \/ \E card \in cardList : SelectCard(card)
    \/ \E position \in Positions : ClickSlot(position)
    \/ \E position \in Positions, data \in DropData : DropOnSlot(position, data)
    \/ Undo
    \/ VoiceClick
    \/ OnStart
    \/ \E transcript \in Transcripts : OnResult(transcript)
    \/ \E kind \in ErrorKinds : OnError(kind)
    \/ OnEnd

Spec == Init /\ [][Next]_vars

----------------------------------------------------------------------------
(* The matcher on its own: the page has loaded one of the catalog documents *)
(* and findBestCardMatch is called with a spoken name.                      *)

MatchInit ==
    \E document \in Documents :
        \E s \in {loadCardsFrom(Constructed(TRUE), document)} : Is(s)

\* this.findBestCardMatch(spokenName). The matcher reads this.cards only and
\* writes nothing, so one call per behaviour covers every call.
FindBestCardMatch(spokenName) ==
    /\ ~asked
    /\ \E s \in {Fresh(Cur)}, spoken \in {Text(spokenName)} :
          \E result \in {findBestCardMatch(s.cards, spoken)} :
              Become([s EXCEPT !.asked = TRUE, !.heard = spoken, !.matched = result])

MatchNext == \E spokenName \in SpokenNames : FindBestCardMatch(spokenName)

MatchSpec == MatchInit /\ [][MatchNext]_vars

----------------------------------------------------------------------------
(* Properties *)

\* the last handled event, and the one before it
Happened(n) == Len(trail) >= n
LastEv == trail[1]
PrevEv == trail[2]

\* the event handed a card to selectCard and the deck did not hold its name
InsertedNew(ev) == ev.card # null /\ FindIndex(ev.deck, ev.card.name) = -1

\* the event handed a card to selectCard and the deck held its name
Bumped(ev) == ev.card # null /\ FindIndex(ev.deck, ev.card.name) # -1

\* the event was a click on an occupied slot
Cycled(ev) == ev.op = "clickSlot" /\ ev.deck[ev.pos + 1] # null

\* the event was a drop of the evo star on an occupied slot
Toggled(ev) == ev.op = "drop" /\ ev.data = "evo" /\ ev.deck[ev.pos + 1] # null

\* C1: the deck has exactly 8 slots in every reachable state, and so has every
\* snapshot in the history.
C1_DeckHasEightSlots ==
    /\ Len(deck) = 8
    /\ \A i \in DOMAIN history : Len(history[i]) = 8

\* C1 witness: a full deck took a new card (by click or by voice) with a full history.
C1_Witness ==
    /\ Happened(1) /\ InsertedNew(LastEv) /\ LastEv.deck[1] # null
    /\ Len(history) = MaxHistory

\* C2: an undo() right after a mutating operation (insert of a new card, bump of a
\* present card, cycle or evolution toggle of an occupied slot) restores the deck
\* the operation found: the same card and the same isEvo in each of the 8 slots.
C2_UndoRestoresDeck ==
    (Happened(2) /\ LastEv.op = "undo" /\ PrevEv.mut) => deck = PrevEv.deck

\* C2 witness: a bump of a card from a slot before the last, then undo.
C2_Witness ==
    /\ Happened(2) /\ LastEv.op = "undo" /\ Bumped(PrevEv)
    /\ FindIndex(PrevEv.deck, PrevEv.card.name) < 7
    /\ LastEv.deck # PrevEv.deck

\* C3: selectCard of a card whose name is in no slot drops slot 0, moves every
\* other slot one to the left and puts the card, not evolved, in slot 7.
C3_InsertShiftsLeft ==
    (Happened(1) /\ InsertedNew(LastEv)) =>
        /\ Len(deck) = 8
        /\ \A i \in 0 .. 6 : deck[i + 1] = LastEv.deck[i + 2]
        /\ deck[8] # null
        /\ deck[8].name = LastEv.card.name
        /\ deck[8].image = LastEv.card.image
        /\ deck[8].alternatives = LastEv.card.alternatives
        /\ deck[8].isEvo = FALSE

\* C3 witness: a full deck took a new card, so a card left slot 0.
C3_Witness ==
    /\ Happened(1) /\ InsertedNew(LastEv)
    /\ \A i \in 1 .. 8 : LastEv.deck[i] # null

\* C4 (as claimed): selectCard of a card held at position p leaves the state that
\* cycleCard(p) leaves: the same deck and the same history.
C4_BumpIsCycle ==
    (Happened(1) /\ Bumped(LastEv)) =>
        LET p == FindIndex(LastEv.deck, LastEv.card.name)
            cycled == cycleCard([deck |-> LastEv.deck, history |-> LastEv.history], p)
        IN  deck = cycled.deck /\ history = cycled.history

\* C5: a click on occupied slot p keeps the slots before p, moves the slots after
\* p one to the left and puts the card of slot p, isEvo unchanged, in slot 7; one
\* snapshot of the deck it found goes on the history, also when p = 7.
C5_CycleMovesToEnd ==
    (Happened(1) /\ Cycled(LastEv)) =>
        LET p == LastEv.pos
            old == LastEv.deck
            kept == IF Len(LastEv.history) = MaxHistory
                    THEN Tail(LastEv.history) ELSE LastEv.history
        IN  /\ \A i \in 0 .. 7 : i < p => deck[i + 1] = old[i + 1]
            /\ \A i \in 0 .. 6 : i >= p => deck[i + 1] = old[i + 2]
            /\ deck[8] = old[p + 1]
            /\ p = 7 => deck = old
            /\ history = Append(kept, old)

\* C5 witness: a cycle of a slot before the last, then a cycle of slot 7.
C5_Witness ==
    /\ Happened(2) /\ Cycled(LastEv) /\ LastEv.pos = 7
    /\ Cycled(PrevEv) /\ PrevEv.pos < 6 /\ PrevEv.deck # LastEv.deck

\* the event pushed exactly one snapshot
PushedOnce(ev) ==
    ev.op = "selectElixir" \/ InsertedNew(ev) \/ Cycled(ev) \/ Toggled(ev)

\* C6: the history never holds more than 10 snapshots; a push onto a history of
\* 10 removes the oldest and keeps the other 9 in order below the new one.
C6_HistoryBounded ==
    /\ Len(history) <= 10
    /\ (Happened(1) /\ PushedOnce(LastEv) /\ Len(LastEv.history) = 10) =>
          /\ Len(history) = 10
          /\ SubSeq(history, 1, 9) = Tail(LastEv.history)
          /\ history[10] = LastEv.deck

\* C6 witness: a push onto a history of 10 whose oldest snapshot differs from the
\* next one and from the pushed one.
C6_Witness ==
    /\ steps > 0
    /\ Happened(1) /\ PushedOnce(LastEv) /\ Len(LastEv.history) = 10
    /\ LastEv.history[1] # LastEv.history[2]
    /\ LastEv.history[1] # LastEv.deck

\* C7 (as claimed): after more than 10 mutating operations in a row, the history
\* is the pre-mutation decks of the 10 most recent ones, one snapshot each.
C7_HistoryIsLastTen ==
    mutCount > 10 => history = mutLog

\* C8: two evo drops in a row on the same occupied slot leave the deck, and the
\* slot's isEvo, as before the first; the two newest snapshots are the deck
\* before the first drop and the deck after it.
C8_TwoTogglesRestore ==
    (Happened(2) /\ Toggled(PrevEv) /\ Toggled(LastEv) /\ LastEv.pos = PrevEv.pos) =>
        LET p == LastEv.pos
            n == Len(history)
        IN  /\ deck = PrevEv.deck
            /\ deck[p + 1].isEvo = PrevEv.deck[p + 1].isEvo
            /\ LastEv.deck[p + 1].isEvo # PrevEv.deck[p + 1].isEvo
            /\ \A i \in 0 .. 7 : i # p => LastEv.deck[i + 1] = PrevEv.deck[i + 1]
            /\ n >= 2
            /\ history[n - 1] = PrevEv.deck
            /\ history[n] = LastEv.deck

\* C8 witness: two evo drops in a row on the same occupied slot.
C8_Witness ==
    /\ Happened(2) /\ Toggled(PrevEv) /\ Toggled(LastEv) /\ LastEv.pos = PrevEv.pos
    /\ PrevEv.deck[PrevEv.pos + 1].isEvo

\* C9: a click or an evo drop on an empty slot changes neither the deck nor the
\* history.
C9_EmptySlotIgnored ==
    (/\ Happened(1)
     /\ LastEv.op = "clickSlot" \/ (LastEv.op = "drop" /\ LastEv.data = "evo")
     /\ LastEv.deck[LastEv.pos + 1] = null) =>
        deck = LastEv.deck /\ history = LastEv.history

\* C9 witness: an evo drop on an empty slot of a deck that holds cards, with
\* snapshots in the history.
C9_Witness ==
    /\ Happened(1) /\ LastEv.op = "drop" /\ LastEv.data = "evo"
    /\ LastEv.deck[LastEv.pos + 1] = null
    /\ LastEv.deck[8] # null /\ LastEv.history # <<>>

\* C10: undo() on an empty history changes neither the deck nor the history; on a
\* non-empty history the deck becomes the newest snapshot, the history loses
\* exactly that snapshot and gains none.
C10_UndoPopsOne ==
    (Happened(1) /\ LastEv.op = "undo") =>
        IF LastEv.history = <<>>
        THEN deck = LastEv.deck /\ history = <<>>
        ELSE /\ deck = LastEv.history[Len(LastEv.history)]
             /\ Len(history) = Len(LastEv.history) - 1
             /\ \A i \in 1 .. Len(history) : history[i] = LastEv.history[i]

\* C10 witness: an undo that took the last snapshot, then an undo on the empty
\* history of a deck that holds cards.
C10_Witness ==
    /\ Happened(2) /\ LastEv.op = "undo" /\ PrevEv.op = "undo"
    /\ Len(PrevEv.history) = 1 /\ LastEv.history = <<>>
    /\ PrevEv.deck # LastEv.deck /\ deck[8] # null

\* the event was a speech result
Spoke(ev) == ev.op = "onresult"

\* the transcript of a speech result as processVoiceCommand receives it
Lowered(ev) == ToLowerCase(Text(ev.data))

\* C11: a speech result whose lower-cased transcript does not start with "add "
\* does not call findBestCardMatch and changes neither the deck nor the history.
C11_NoPrefixNoMatcher ==
    (Happened(1) /\ Spoke(LastEv) /\ ~StartsWith(Lowered(LastEv), Text("add "))) =>
        /\ ~asked
        /\ deck = LastEv.deck
        /\ history = LastEv.history

\* C11 witness: "please add hog", which holds "add " but does not start with it,
\* was said to a full deck that holds Hog Rider.
C11_Witness ==
    /\ Happened(1) /\ Spoke(LastEv) /\ LastEv.data = "please add hog"
    /\ FindIndex(LastEv.deck, "Hog Rider") # -1
    /\ LastEv.history # <<>>

\* C12: a speech result "add <name>" for which findBestCardMatch returns null
\* changes neither the deck nor the history.
C12_MissChangesNothing ==
    (Happened(1) /\ Spoke(LastEv) /\ asked /\ matched = null) =>
        /\ deck = LastEv.deck
        /\ history = LastEv.history

\* C12 witness: "add zzz" was said to a full deck with a loaded catalog and found
\* no card.
C12_Witness ==
    /\ Happened(1) /\ Spoke(LastEv) /\ asked /\ matched = null
    /\ LastEv.cards # <<>> /\ LastEv.deck[1] # null /\ LastEv.history # <<>>

----------------------------------------------------------------------------
(* Properties of the matcher, for MatchSpec *)

\* the cards in scan order, and the spoken name as the matcher compares it
Scan == Flat(cards)
Spoken == Trim(ToLowerCase(heard))

Lower(str) == ToLowerCase(Text(str))
Clean(t) == Trim(StripStopWords(t))
Contain(a, b) == Includes(a, b) \/ Includes(b, a)

\* does card c pass the test of tier n for the spoken name sp?
Passes(n, c, sp) ==
    CASE n = 1 -> Lower(c.name) = sp
      [] n = 2 -> \E k \in DOMAIN c.alternatives : Lower(c.alternatives[k]) = sp
      [] n = 3 -> Contain(Lower(c.name), sp)
      [] n = 4 -> \E k \in DOMAIN c.alternatives : Contain(Lower(c.alternatives[k]), sp)
      [] n = 5 -> Contain(Clean(Lower(c.name)), Clean(sp))

\* the tiers in which some card of the scan passes
TiersWithHit == {n \in 1 .. 5 : \E i \in DOMAIN Scan : Passes(n, Scan[i], Spoken)}

\* C13 (amended): findBestCardMatch("the knight") returns the card named "Knight"
\* when the catalog holds one; against a catalog whose only card is "Another
\* Knight" it returns that card, through the stopword tier: the stripping removes
\* only standalone words ("another knight" stays whole, "the knight" becomes
\* "knight"), and the stripped name contains the stripped spoken name.
C13_TheKnight ==
    (asked /\ heard = Text("the knight")) =>
        /\ (\E i \in DOMAIN Scan : Scan[i].name = "Knight") =>
               matched # null /\ matched.name = "Knight"
        /\ (Len(Scan) = 1 /\ Scan[1].name = "Another Knight") =>
               /\ matched = Scan[1]
               /\ TiersWithHit = {5}
               /\ Clean(Lower(matched.name)) = Text("another knight")
               /\ Clean(Spoken) = Text("knight")

\* C13 witness: "the knight" was looked up in a catalog whose only card is
\* "Another Knight".
C13_Witness ==
    /\ asked /\ heard = Text("the knight")
    /\ Len(Scan) = 1 /\ Scan[1].name = "Another Knight"
    /\ matched # null

\* C13 (as claimed): against a catalog whose only card is "Another Knight",
\* findBestCardMatch("the knight") returns null.
C13_AnotherKnightNotFound ==
    (asked /\ heard = Text("the knight")
           /\ Len(Scan) = 1 /\ Scan[1].name = "Another Knight") =>
        matched = null

C15_TiersInOrder ==
    asked =>
        /\ IF TiersWithHit = {} THEN matched = null
           ELSE LET n == CHOOSE n \in TiersWithHit : \A m \in TiersWithHit : n <= m
                    hits == {i \in DOMAIN Scan : Passes(n, Scan[i], Spoken)}
                IN  matched = Scan[CHOOSE i \in hits : \A j \in hits : i <= j]
        /\ 1 \in TiersWithHit => Lower(matched.name) = Spoken
        /\ (1 \notin TiersWithHit /\ 2 \in TiersWithHit) =>
              \E k \in DOMAIN matched.alternatives : Lower(matched.alternatives[k]) = Spoken

\* C15 witness: "the log" was looked up in a catalog where "Log", which has the
\* alternative "the log", comes before "The Log"; and the card returned is "The Log".
C15_Witness ==
    /\ asked /\ heard = Text("the log")
    /\ Len(Scan) >= 2 /\ Scan[1].name = "Log" /\ Scan[2].name = "The Log"
    /\ matched # null /\ matched.name = "The Log"

----------------------------------------------------------------------------
(* Properties of the listening session *)

\* the event was a click on the voice button
VoiceClicked(ev) == ev.op = "voiceClick"

\* C16 (as claimed): a speech result delivered while isListening is false changes
\* neither the deck nor the history.
C16_TrailingResultIgnored ==
    (Happened(1) /\ Spoke(LastEv) /\ ~LastEv.isListening) =>
        /\ deck = LastEv.deck
        /\ history = LastEv.history

\* C17 (as claimed): a click on the voice button while a session that was
\* requested has not ended does not call recognition.start().
C17_NoStartDuringSession ==
    (Happened(1) /\ VoiceClicked(LastEv) /\ LastEv.session # "idle") =>
        called # "start"

----------------------------------------------------------------------------
(* Frame properties *)

\* the event was a click on an elixir button
ElixirChosen(ev) == ev.op = "selectElixir"

\* C18 (as claimed): a click on an elixir button changes neither the deck nor the
\* history.
C18_ElixirKeepsHistory ==
    (Happened(1) /\ ElixirChosen(LastEv)) =>
        /\ deck = LastEv.deck
        /\ history = LastEv.history

\* C19: an evo drop on occupied slot p changes the isEvo of the card in slot p
\* and nothing else of the deck; the catalog keeps its records, which carry no
\* isEvo; the snapshots that were stored keep their values, and the snapshot the
\* drop pushes holds the deck as it was before the toggle.
C19_ToggleTouchesOneFlag ==
    (Happened(1) /\ Toggled(LastEv)) =>
        LET p == LastEv.pos
            old == LastEv.deck
            kept == IF Len(LastEv.history) = MaxHistory
                    THEN Tail(LastEv.history) ELSE LastEv.history
        IN  /\ \A i \in 0 .. 7 : i # p => deck[i + 1] = old[i + 1]
            /\ deck[p + 1] = [old[p + 1] EXCEPT !.isEvo = ~@]
            /\ cards = LastEv.cards
            /\ \A c \in AllCards(cards) : DOMAIN c = {"name", "image", "alternatives"}
            /\ Len(history) = Len(kept) + 1
            /\ SubSeq(history, 1, Len(kept)) = kept
            /\ history[Len(history)] = old
            /\ history[Len(history)][p + 1].isEvo = old[p + 1].isEvo

\* C19 witness: an evo drop on a slot whose card stands, with the same isEvo, in
\* the same slot of the newest stored snapshot, in a deck with another evolved card.
C19_Witness ==
    /\ steps > 0 /\ Happened(1) /\ Toggled(LastEv)
    /\ LastEv.history # <<>>
    /\ Last(LastEv.history)[LastEv.pos + 1] = LastEv.deck[LastEv.pos + 1]
    /\ \E i \in 0 .. 7 : i # LastEv.pos /\ LastEv.deck[i + 1] # null
                                         /\ LastEv.deck[i + 1].isEvo

\* the catalog is {}: the fetch has not settled, or it failed
NoCatalog(catalog) == catalog = <<>>

----------------------------------------------------------------------------
(* Properties of runs of operations *)

\* C21 (as claimed): after a run of k mutating operations, 1 <= k <= 10, and
\* then k undos, the deck is the deck that preceded the first operation of the run.
C21_UndoRunRestores ==
    (1 <= runLen /\ runLen <= MaxHistory /\ undone = runLen) => deck = runBase

\* no card name stands in two slots of d
NamesDiffer(d) ==
    \A i, j \in DOMAIN d :
        (i < j /\ d[i] # null /\ d[j] # null) => d[i].name # d[j].name

\* the catalog gives each name to one card
UniqueNames(catalog) ==
    \A i, j \in DOMAIN Flat(catalog) :
        i # j => Flat(catalog)[i].name # Flat(catalog)[j].name

\* C22: with a catalog of unique card names, no card name stands in two slots
\* of the deck or of a snapshot in the history.
C22_NoNameTwice ==
    UniqueNames(cards) =>
        /\ NamesDiffer(deck)
        /\ \A k \in DOMAIN history : NamesDiffer(history[k])

\* C22 witness: a card that stood in a full deck was chosen again, by click or
\* by voice.
C22_Witness ==
    /\ steps > 0 /\ Happened(1) /\ Bumped(LastEv)
    /\ UniqueNames(cards) /\ cards # <<>>
    /\ \A i \in 1 .. 8 : deck[i] # null

\* the empty slots of d come before the occupied ones
EmptyFirst(d) ==
    \A i, j \in DOMAIN d : (i < j /\ d[i] # null) => d[j] # null

\* C23: in the deck, and in every snapshot of the history, every slot after an
\* occupied slot is occupied.
C23_EmptySlotsFirst ==
    /\ EmptyFirst(deck)
    /\ \A k \in DOMAIN history : EmptyFirst(history[k])

\* C23 witness: in a deck with empty slots, a card that had cards after it was
\* cycled, and then the cycle was undone.
C23_Witness ==
    /\ Happened(2) /\ LastEv.op = "undo" /\ Cycled(PrevEv)
    /\ PrevEv.deck[1] = null /\ PrevEv.pos < 7
    /\ deck # LastEv.deck

====
